---- MODULE Spec2Model ----
(***************************************************************************)
(* State-machine model of src/native/c_driver/driver_shim.c: the raw       *)
(* socket, sendmmsg, io_uring, AF_XDP and DPDK send paths, their           *)
(* init/cleanup lifecycles and the capability probe and backend selector.  *)
(* Each backend keeps its own file-scope state in the source, so each has  *)
(* its own specification over the same variables.                          *)
(***************************************************************************)
EXTENDS Integers, Sequences, FiniteSets, Bags, TLC

(* ---------------------------------------------------------------------- *)
(* Bounds of the model                                                     *)
(* ---------------------------------------------------------------------- *)

\* number of UMEM frames (the source sets 4096; the model scales it down)
NUM_FRAMES == 2

\* XSK_UMEM__DEFAULT_FRAME_SIZE
FRAME_SIZE == 4096

\* largest value the tx ring's producer counter may reach in the model
MaxTxProd == 3

\* packet lengths are drawn from 1..MaxLen
MaxLen == 2

\* largest batch passed to a batch send
MaxBatch == 2

\* at most this many live (leaked or referenced) instances of one resource
MaxLive == 2

\* largest queue_depth passed to init_io_uring
MaxQueueDepth == 1

\* completions counted by io_uring_stats (packets_sent + errors) in a run
MaxCompletions == 2

\* operations left on the ring (prepared or in flight) when a call returns
MaxStale == 1

\* descriptors the process may have open
MaxFds == 2

\* references to the socket library (WSAStartup less WSACleanup) in a run
MaxWsaRefs == 2

\* mbufs in the pool (the source creates 8192; the model scales it down)
PoolSize == 2

\* kernel major versions 2..MaxMajor are probed
MaxMajor == 6

\* length of the byte sequences checksummed exhaustively
MaxCsumLen == 4
MaxSendLen == 21

VARIABLES
    \* ---- observation of the last call (what a caller can see) ----
    call,        \* the operation called last, with its distinguishing argument
    ret,         \* the value the last call returned
    released,    \* the resources the last call released
    acquired,    \* the resources the last call acquired or initialised
    lens,        \* the lengths[] array passed to the last batch send
    handed,      \* input indices the last batch send handed off for transmission
    fault,       \* the failures the environment answered the last call with
    pre_stats,   \* io_uring_stats as it was when the last call was made
    \* ---- AF_XDP backend (driver_shim.c:376-382) ----
    xsk, umem, umem_area,   \* pointer state: "NULL", "live" or "freed" (dangling)
    tx_ring, rx_ring, fq, cq,
    xdp_live,    \* live library objects: [area, umem, xsk] -> count
    xdp_ub,      \* TRUE once the backend has executed undefined behaviour
                 \* (nothing is defined after it: no operation is modelled then)
    recv_pc,     \* position of the thread inside af_xdp_recv
    recv_desc,   \* the rx ring slot af_xdp_recv's desc pointer refers to
    recv_peeked, \* that slot as it was when af_xdp_recv peeked it, and max_len
    \* ---- io_uring backend (driver_shim.c:545-548) ----
    ring, io_uring_initialized, io_uring_sockfd, io_uring_stats,
    uring_ub,    \* TRUE once the backend has executed undefined behaviour
    uring_fds,   \* sockets opened by init_io_uring and not closed
    \* ---- raw socket and sendmmsg paths: the process's descriptors ----
    open_fds,    \* the descriptors that are open sockets
    wsa_refs,    \* _WIN32: reference count of the socket library
    platform,    \* the compile variant of the raw socket and sendmmsg paths
    last_fd,     \* the sockfd argument (or result) of the last socket call
    \* ---- DPDK backend (driver_shim.c:214-215) ----
    dpdk_initialized, mbuf_pool,
    eal,         \* the environment abstraction layer: "never" initialised,
                 \* "failed", "up" or "cleaned"
    pool_free,   \* mbufs free in the pool
    nic_mbufs,   \* mbufs the port accepted and has not transmitted yet
    mbuf_frees,  \* per input index: times the last dpdk_send_burst freed its mbuf
    mbuf_allocs, \* per input index: 1 if the last dpdk_send_burst allocated its mbuf
    \* ---- driver facade ----
    build,       \* the compile-time feature switches of this build
    caps,        \* the capability record of the last probe
    open_pc,     \* "closed", "init" (open is trying a backend), "open", "failed"
    cand,       \* the backend open is trying
    usable,      \* caps less the backends whose initializer failed
    failed_inits,\* the backends whose initializer failed during this open
    active,      \* the backends initialised and owned by the facade
    \* ---- calls of the pure functions: arguments and results ----
    sel_in,      \* the two capability records given to select_best_backend
    sel_out,     \* the backends it returned for them (<<>> before the call)
    probe_in,    \* the build, uname's answer and release detect_capabilities meets
    probe_out,   \* its return value and the record it filled (<<>> before)
    csum_in,     \* the bytes (and addresses, protocol) given to a checksum function
    csum_out,    \* the checksums returned (<<>> before the call)
    send_in,     \* the sockfd and buffer given to raw_socket_send_ip, and what
                 \* sendto will answer
    send_out     \* its return value and the sendto calls it issued

obsVars == <<call, ret, released, acquired, lens, handed, fault, pre_stats>>
xdpVars == <<xsk, umem, umem_area, tx_ring, rx_ring, fq, cq, xdp_live, xdp_ub,
             recv_pc, recv_desc, recv_peeked>>
uringVars == <<ring, io_uring_initialized, io_uring_sockfd, io_uring_stats, uring_ub,
               uring_fds>>
sockVars == <<open_fds, wsa_refs, last_fd, platform>>
dpdkVars == <<dpdk_initialized, mbuf_pool, eal, pool_free, nic_mbufs, mbuf_frees,
              mbuf_allocs>>
facadeVars == <<build, caps, open_pc, cand, usable, failed_inits, active>>
pureVars == <<sel_in, sel_out, probe_in, probe_out, csum_in, csum_out, send_in, send_out>>
vars == <<obsVars, xdpVars, uringVars, sockVars, dpdkVars, facadeVars, pureVars>>

(* ---------------------------------------------------------------------- *)
(* Helpers                                                                 *)
(* ---------------------------------------------------------------------- *)

Min(a, b) == IF a < b THEN a ELSE b

PktLens == 1..MaxLen

\* the lengths[] arrays a caller may pass: every array of 0..MaxBatch lengths
Batches == UNION {[1..n -> PktLens] : n \in 0..MaxBatch}

RECURSIVE SumSeq(_)
SumSeq(s) == IF s = <<>> THEN 0 ELSE Head(s) + SumSeq(Tail(s))

RECURSIVE SeqToBag(_)
SeqToBag(s) == IF s = <<>> THEN EmptyBag ELSE SetToBag({Head(s)}) (+) SeqToBag(Tail(s))

SeqRange(s) == {s[i] : i \in 1..Len(s)}

NoCall == "none"

\* what a call leaves for the caller to observe
Observe(c, r, rel, acq, ls, hd, flt) ==
    /\ call' = c
    /\ ret' = r
    /\ released' = rel
    /\ acquired' = acq
    /\ lens' = ls
    /\ handed' = hd
    /\ fault' = flt
    /\ pre_stats' = io_uring_stats

ObsInit ==
    /\ call = NoCall
    /\ ret = 0
    /\ released = {}
    /\ acquired = {}
    /\ lens = <<>>
    /\ handed = {}
    /\ fault = {}
    /\ pre_stats = [packets_sent |-> 0, bytes_sent |-> 0, packets_received |-> 0,
                    bytes_received |-> 0, errors |-> 0]

(* ---------------------------------------------------------------------- *)
(* AF_XDP backend                                                          *)
(* ---------------------------------------------------------------------- *)

UMEM_SIZE == NUM_FRAMES * FRAME_SIZE

\* the frame addresses of the memory area: 0, FRAME_SIZE, ...
FrameAddrs == {i * FRAME_SIZE : i \in 0..(NUM_FRAMES - 1)}

NoDesc == [addr |-> -1, len |-> 0]

NoPeek == [addr |-> -1, len |-> 0, max_len |-> 0]

EmptyProd == [prod |-> 0, q |-> <<>>]

\* xsk_ring_prod__reserve: all nb slots or none
xsk_ring_prod__reserve(used, size, nb) == IF size - used >= nb THEN nb ELSE 0

\* the address af_xdp_send / af_xdp_send_batch write into a tx descriptor:
\* the ring's producer index (uint32_t, not masked) times FRAME_SIZE
\* (32-bit arithmetic: (idx * 2^12) mod 2^32 = (idx mod 2^20) * 2^12)
TxAddr(idx) == (idx % (2^20)) * FRAME_SIZE

\* memcpy(umem_area + addr, data, len) stays inside the allocated area
CopyInArea(addr, len) == umem_area = "live" /\ addr + len <= UMEM_SIZE

XdpInit ==
    /\ xsk = "NULL"
    /\ umem = "NULL"
    /\ umem_area = "NULL"
    /\ tx_ring = EmptyProd
    /\ rx_ring = <<>>
    /\ fq = <<>>
    /\ cq = <<>>
    /\ xdp_live = [area |-> 0, umem |-> 0, xsk |-> 0]
    /\ xdp_ub = FALSE
    /\ recv_pc = "idle"
    /\ recv_desc = NoDesc
    /\ recv_peeked = NoPeek

InitOutcomes == {"no_ifindex", "no_memory", "umem_fails", "socket_fails", "ok"}

\* the fill ring as init_af_xdp populates it: i * FRAME_SIZE for i < NUM_FRAMES
PopulateFill == [i \in 1..NUM_FRAMES |-> (i - 1) * FRAME_SIZE]

XskFd == 3

init_af_xdp(out) ==
    /\ recv_pc = "idle"
    /\ ~xdp_ub
    /\ xdp_live.area < MaxLive
    /\ CASE out = "no_ifindex" ->
              /\ Observe("init_af_xdp", -1, {}, {}, <<>>, {}, {out})
              /\ UNCHANGED xdpVars
         [] out = "no_memory" ->
              \* umem_area is overwritten with NULL; an earlier area stays allocated
              /\ umem_area' = "NULL"
              /\ Observe("init_af_xdp", -1, {}, {}, <<>>, {}, {out})
              /\ UNCHANGED <<xsk, umem, tx_ring, rx_ring, fq, cq, xdp_live, xdp_ub,
                             recv_pc, recv_desc, recv_peeked>>
         [] out = "umem_fails" ->
              \* the new area is allocated and freed; the pointer is left dangling
              /\ umem_area' = "freed"
              /\ Observe("init_af_xdp", -1, {"umem_area"}, {"umem_area"}, <<>>, {}, {out})
              /\ UNCHANGED <<xsk, umem, tx_ring, rx_ring, fq, cq, xdp_live, xdp_ub,
                             recv_pc, recv_desc, recv_peeked>>
         [] out = "socket_fails" ->
              \* the new UMEM (with fresh fill and completion rings) is created,
              \* then deleted and the area freed; both pointers are left dangling
              /\ umem_area' = "freed"
              /\ umem' = "freed"
              /\ fq' = <<>>
              /\ cq' = <<>>
              /\ Observe("init_af_xdp", -1, {"umem", "umem_area"},
                         {"umem_area", "umem"}, <<>>, {}, {out})
              /\ UNCHANGED <<xsk, tx_ring, rx_ring, xdp_live, xdp_ub, recv_pc, recv_desc, recv_peeked>>
         [] out = "ok" ->
              /\ umem_area' = "live"
              /\ umem' = "live"
              /\ xsk' = "live"
              /\ xdp_live' = [area |-> xdp_live.area + 1, umem |-> xdp_live.umem + 1,
                              xsk |-> xdp_live.xsk + 1]
              /\ fq' = PopulateFill
              /\ cq' = <<>>
              /\ tx_ring' = EmptyProd
              /\ rx_ring' = <<>>
              /\ Observe("init_af_xdp", XskFd, {}, {"umem_area", "umem", "xsk"},
                         <<>>, {}, {})
              /\ UNCHANGED <<xdp_ub, recv_pc, recv_desc, recv_peeked>>

af_xdp_send(len) ==
    /\ recv_pc = "idle"
    /\ ~xdp_ub
    /\ IF xsk = "NULL"
       THEN /\ Observe("af_xdp_send", -1, {}, {}, <<>>, {}, {})
            /\ UNCHANGED xdpVars
       ELSE IF xsk_ring_prod__reserve(Len(tx_ring.q), NUM_FRAMES, 1) # 1
       THEN /\ Observe("af_xdp_send", -1, {}, {}, <<>>, {}, {})
            /\ UNCHANGED xdpVars
       ELSE /\ tx_ring.prod < MaxTxProd
            /\ LET addr == TxAddr(tx_ring.prod) IN
               /\ tx_ring' = [prod |-> tx_ring.prod + 1,
                              q |-> Append(tx_ring.q, [addr |-> addr, len |-> len])]
               /\ xdp_ub' = (xdp_ub \/ ~CopyInArea(addr, len))
            /\ Observe("af_xdp_send", len, {}, {}, <<>>, {}, {})
            /\ UNCHANGED <<xsk, umem, umem_area, rx_ring, fq, cq, xdp_live,
                           recv_pc, recv_desc, recv_peeked>>

af_xdp_send_batch(lengths) ==
    /\ recv_pc = "idle"
    /\ ~xdp_ub
    /\ IF xsk = "NULL"
       THEN /\ Observe("af_xdp_send_batch", -1, {}, {}, lengths, {}, {})
            /\ UNCHANGED xdpVars
       ELSE LET count == Len(lengths)
                idx == tx_ring.prod
                reserved == xsk_ring_prod__reserve(Len(tx_ring.q), NUM_FRAMES, count)
                descs == [i \in 1..reserved |->
                            [addr |-> TxAddr(idx + i - 1), len |-> lengths[i]]]
            IN /\ idx + reserved <= MaxTxProd
               /\ tx_ring' = [prod |-> idx + reserved, q |-> tx_ring.q \o descs]
               /\ xdp_ub' = (xdp_ub \/ \E i \in 1..reserved :
                                          ~CopyInArea(descs[i].addr, descs[i].len))
               /\ Observe("af_xdp_send_batch", reserved, {}, {}, lengths,
                          0..(reserved - 1), {})
               /\ UNCHANGED <<xsk, umem, umem_area, rx_ring, fq, cq, xdp_live,
                              recv_pc, recv_desc, recv_peeked>>

\* af_xdp_recv up to and including xsk_ring_cons__release (lines 491-506)
af_xdp_recv(max_len) ==
    /\ recv_pc = "idle"
    /\ ~xdp_ub
    /\ IF xsk = "NULL"
       THEN /\ Observe("af_xdp_recv", -1, {}, {}, <<>>, {}, {})
            /\ UNCHANGED xdpVars
       ELSE IF rx_ring = <<>>
       THEN /\ Observe("af_xdp_recv", 0, {}, {}, <<>>, {}, {})
            /\ UNCHANGED xdpVars
       ELSE LET desc == Head(rx_ring)
                len == Min(desc.len, max_len)
            IN /\ rx_ring' = Tail(rx_ring)
               /\ recv_desc' = desc
               /\ recv_peeked' = [addr |-> desc.addr, len |-> desc.len, max_len |-> max_len]
               /\ recv_pc' = "refill"
               /\ xdp_ub' = (xdp_ub \/ ~CopyInArea(desc.addr, len))
               /\ Observe("af_xdp_recv", len, {}, {}, <<>>, {}, {})
               /\ UNCHANGED <<xsk, umem, umem_area, tx_ring, fq, cq, xdp_live>>

\* the refill posting the address of the frame after the one consumed
af_xdp_recv_refill_next_frame ==
    /\ recv_pc = "refill"
    /\ ~xdp_ub
    /\ fq' = IF xsk_ring_prod__reserve(Len(fq), NUM_FRAMES, 1) = 1
             THEN Append(fq, (recv_desc.addr + FRAME_SIZE) % UMEM_SIZE)
             ELSE fq
    /\ recv_pc' = "idle"
    /\ recv_desc' = NoDesc
    /\ recv_peeked' = NoPeek
    /\ UNCHANGED <<obsVars, xsk, umem, umem_area, tx_ring, rx_ring, cq, xdp_live, xdp_ub>>

\* the rest of af_xdp_recv: the refill of the fill ring (lines 508-515);
\* desc->addr is read from the rx slot after the slot was released
af_xdp_recv_refill ==
    /\ recv_pc = "refill"
    /\ ~xdp_ub
    /\ fq' = IF xsk_ring_prod__reserve(Len(fq), NUM_FRAMES, 1) = 1
             THEN Append(fq, recv_desc.addr)
             ELSE fq
    /\ recv_pc' = "idle"
    /\ recv_desc' = NoDesc
    /\ recv_peeked' = NoPeek
    /\ UNCHANGED <<obsVars, xsk, umem, umem_area, tx_ring, rx_ring, cq, xdp_live, xdp_ub>>

\* deleting or freeing through a pointer: a live object is released, a
\* dangling pointer is released a second time (undefined behaviour)
cleanup_af_xdp ==
    /\ recv_pc = "idle"
    /\ ~xdp_ub
    /\ xsk' = "NULL"
    /\ umem' = "NULL"
    /\ umem_area' = "NULL"
    /\ xdp_live' = [area |-> xdp_live.area - (IF umem_area = "live" THEN 1 ELSE 0),
                    umem |-> xdp_live.umem - (IF umem = "live" THEN 1 ELSE 0),
                    xsk |-> xdp_live.xsk - (IF xsk = "live" THEN 1 ELSE 0)]
    /\ xdp_ub' = (xdp_ub \/ "freed" \in {xsk, umem, umem_area})
    /\ tx_ring' = IF xsk # "NULL" THEN EmptyProd ELSE tx_ring
    /\ rx_ring' = IF xsk # "NULL" THEN <<>> ELSE rx_ring
    /\ fq' = IF umem # "NULL" THEN <<>> ELSE fq
    /\ cq' = IF umem # "NULL" THEN <<>> ELSE cq
    /\ Observe("cleanup_af_xdp", 0,
               (IF xsk # "NULL" THEN {"xsk"} ELSE {})
                 \cup (IF umem # "NULL" THEN {"umem"} ELSE {})
                 \cup (IF umem_area # "NULL" THEN {"umem_area"} ELSE {}),
               {}, <<>>, {}, {})
    /\ UNCHANGED <<recv_pc, recv_desc, recv_peeked>>

\* the kernel receives a packet: it takes the frame at the head of the fill
\* ring and produces an rx descriptor for it
KernelRx(len) ==
    /\ xsk = "live"
    /\ ~xdp_ub
    /\ fq # <<>>
    /\ Len(rx_ring) < NUM_FRAMES
    /\ LET desc == [addr |-> Head(fq), len |-> len] IN
       /\ rx_ring' = Append(rx_ring, desc)
       \* a descriptor produced into the slot af_xdp_recv just released
       \* (the last free slot of the ring) replaces what desc points to
       /\ recv_desc' = IF recv_pc = "refill" /\ Len(rx_ring) = NUM_FRAMES - 1
                       THEN desc ELSE recv_desc
    /\ fq' = Tail(fq)
    /\ UNCHANGED <<obsVars, xsk, umem, umem_area, tx_ring, cq, xdp_live, xdp_ub, recv_pc,
                   recv_peeked>>

\* the kernel transmits the descriptor at the head of the tx ring and posts
\* its address on the completion ring; a descriptor outside the memory area
\* is invalid and is consumed without a completion
KernelTx ==
    /\ xsk = "live"
    /\ ~xdp_ub
    /\ tx_ring.q # <<>>
    /\ LET desc == Head(tx_ring.q) IN
       IF desc.addr + desc.len <= UMEM_SIZE
       THEN /\ Len(cq) < NUM_FRAMES
            /\ cq' = Append(cq, desc.addr)
       ELSE cq' = cq
    /\ tx_ring' = [tx_ring EXCEPT !.q = Tail(tx_ring.q)]
    /\ UNCHANGED <<obsVars, xsk, umem, umem_area, rx_ring, fq, xdp_live, xdp_ub,
                   recv_pc, recv_desc, recv_peeked>>

(* ---------------------------------------------------------------------- *)
(* io_uring backend                                                        *)
(* ---------------------------------------------------------------------- *)

URING_QUEUE_DEPTH == 256

ZeroStats == [packets_sent |-> 0, bytes_sent |-> 0, packets_received |-> 0,
              bytes_received |-> 0, errors |-> 0]

StatFields == {"packets_sent", "bytes_sent", "packets_received", "bytes_received",
               "errors"}

\* io_uring_queue_init rounds the number of entries up to a power of two
RECURSIVE RoundUpPow2From(_, _)
RoundUpPow2From(n, p) == IF p >= n THEN p ELSE RoundUpPow2From(n, 2 * p)

\* the submission queue size init_io_uring asks for and gets
SqEntries(queue_depth) ==
    RoundUpPow2From(IF queue_depth > 0 THEN queue_depth ELSE URING_QUEUE_DEPTH, 1)

\* The ring was never set up (state "none"), is set up ("live") or was torn
\* down by io_uring_queue_exit ("exited").  sq holds the prepared entries not
\* yet submitted, inflight the submitted operations whose completion has not
\* been consumed.  An entry is written as the value its completion carries in
\* cqe->res: the bytes sent, or -1 for a negative errno.
NoRing == [state |-> "none", entries |-> 0, sq |-> <<>>, inflight |-> EmptyBag]

FreshRing(n) == [state |-> "live", entries |-> n, sq |-> <<>>, inflight |-> EmptyBag]

SockFd == 4

UringInit ==
    /\ ring = NoRing
    /\ io_uring_initialized = 0
    /\ io_uring_sockfd = -1
    /\ io_uring_stats = ZeroStats
    /\ uring_ub = FALSE
    /\ uring_fds = 0

UringInitOutcomes == {"queue_init_fails", "socket_fails", "ok"}

init_io_uring(queue_depth, out) ==
    /\ ~uring_ub
    /\ uring_fds < MaxLive
    /\ CASE out = "queue_init_fails" ->
              /\ Observe("init_io_uring", -1, {}, {}, <<>>, {}, {out})
              /\ UNCHANGED uringVars
         [] out = "socket_fails" ->
              \* the new ring is set up and torn down again; io_uring_sockfd
              \* holds socket()'s -1; io_uring_initialized keeps its value
              /\ ring' = [FreshRing(SqEntries(queue_depth)) EXCEPT !.state = "exited"]
              /\ io_uring_sockfd' = -1
              /\ Observe("init_io_uring", -1, {"ring"}, {"ring"}, <<>>, {}, {out})
              /\ UNCHANGED <<io_uring_initialized, io_uring_stats, uring_ub,
                             uring_fds>>
         [] out = "ok" ->
              /\ ring' = FreshRing(SqEntries(queue_depth))
              /\ io_uring_sockfd' = SockFd
              /\ io_uring_initialized' = 1
              /\ uring_fds' = uring_fds + 1
              /\ Observe("init_io_uring", 0, {}, {"ring", "sockfd"}, <<>>, {}, {})
              /\ UNCHANGED <<io_uring_stats, uring_ub>>

\* the entries a call prepares: one per packet while io_uring_get_sqe finds a
\* free slot in the submission queue
Prepared(count) == Min(count, ring.entries - Len(ring.sq))

\* the results the kernel may give the first i operations of a batch
Results(lengths, i) ==
    {r \in [1..i -> PktLens \cup {-1}] : \A k \in 1..i : r[k] \in {lengths[k], -1}}

\* the entries of s at the indices in R, as a bag
RECURSIVE IdxBag(_, _)
IdxBag(s, R) ==
    IF R = {} THEN EmptyBag
    ELSE LET k == CHOOSE x \in R : TRUE
         IN SetToBag({s[k]}) (+) IdxBag(s, R \ {k})

\* the completions of a bag with res >= 0, and the sum of their res
RECURSIVE BagCount(_, _)
BagCount(b, S) ==
    IF S = {} THEN 0
    ELSE LET x == CHOOSE y \in S : TRUE
         IN b[x] + BagCount(b, S \ {x})

RECURSIVE BagBytes(_, _)
BagBytes(b, S) ==
    IF S = {} THEN 0
    ELSE LET x == CHOOSE y \in S : TRUE
         IN x * b[x] + BagBytes(b, S \ {x})

Successes(b) == {x \in BagToSet(b) : x >= 0}
Failures(b) == {x \in BagToSet(b) : x < 0}

\* bounds on the model: completions counted by the statistics, and
\* operations left on the ring when a call returns
StatsRoom(n) == io_uring_stats.packets_sent + io_uring_stats.errors + n <= MaxCompletions
RingRoom(r) == Len(r.sq) + BagCardinality(r.inflight) <= MaxStale

\* io_uring_send_batch(packets, lengths, dests, count).  The environment
\* decides: alloc_ok (both calloc succeed), submit_ok (io_uring_submit
\* succeeds), the result of each operation, and which completions the wait
\* loop consumes (fewer than were submitted iff io_uring_wait_cqe fails).
io_uring_send_batch(lengths, alloc_ok, submit_ok) ==
    /\ ~uring_ub
    /\ IF io_uring_initialized = 0
       THEN /\ Observe("io_uring_send_batch", -1, {}, {}, lengths, {}, {})
            /\ UNCHANGED uringVars
       ELSE IF ~alloc_ok
       THEN /\ Observe("io_uring_send_batch", -1, {}, {}, lengths, {}, {"calloc"})
            /\ UNCHANGED uringVars
       ELSE IF ring.state # "live"
       THEN \* io_uring_get_sqe on a ring that io_uring_queue_exit unmapped
            /\ uring_ub' = TRUE
            /\ UNCHANGED <<obsVars, ring, io_uring_initialized, io_uring_sockfd,
                           io_uring_stats, uring_fds>>
       ELSE LET i == Prepared(Len(lengths)) IN
            \E own \in Results(lengths, i) :
              LET queued == ring.sq \o own IN
              IF ~submit_ok
              THEN \* submitted < 0: the wait loop does not run and the
                   \* prepared entries stay in the submission queue
                   /\ ring' = [ring EXCEPT !.sq = queued]
                   /\ RingRoom(ring')
                   /\ Observe("io_uring_send_batch", 0, {}, {}, lengths, {},
                              {"io_uring_submit"})
                   /\ UNCHANGED <<io_uring_initialized, io_uring_sockfd,
                                  io_uring_stats, uring_ub, uring_fds>>
              ELSE LET submitted == Len(queued)
                       old == ring.inflight (+) SeqToBag(ring.sq)
                   IN \E R \in SUBSET (1..i) : \E O \in SubBag(old) :
                        LET reaped == IdxBag(own, R) (+) O
                            completed == BagCount(reaped, Successes(reaped))
                            failed == BagCount(reaped, Failures(reaped))
                        IN /\ completed + failed <= submitted
                           /\ StatsRoom(completed + failed)
                           /\ ring' = [ring EXCEPT
                                         !.sq = <<>>,
                                         !.inflight = (old (-) O)
                                                        (+) IdxBag(own, (1..i) \ R)]
                           /\ RingRoom(ring')
                           /\ io_uring_stats' = [io_uring_stats EXCEPT
                                !.packets_sent = @ + completed,
                                !.bytes_sent = @ + BagBytes(reaped, Successes(reaped)),
                                !.errors = @ + failed]
                           /\ Observe("io_uring_send_batch", completed, {}, {}, lengths,
                                      {k - 1 : k \in {j \in 1..i : own[j] >= 0}},
                                      IF completed + failed < submitted
                                      THEN {"io_uring_wait_cqe"} ELSE {})
                           /\ UNCHANGED <<io_uring_initialized, io_uring_sockfd,
                                          uring_ub, uring_fds>>

\* io_uring_send_single(data, len, dest)
io_uring_send_single(len, submit_ok, wait_ok) ==
    /\ ~uring_ub
    /\ IF io_uring_initialized = 0
       THEN /\ Observe("io_uring_send_single", -1, {}, {}, <<>>, {}, {})
            /\ UNCHANGED uringVars
       ELSE IF ring.state # "live"
       THEN /\ uring_ub' = TRUE
            /\ UNCHANGED <<obsVars, ring, io_uring_initialized, io_uring_sockfd,
                           io_uring_stats, uring_fds>>
       ELSE IF Prepared(1) = 0
       THEN \* io_uring_get_sqe returned NULL
            /\ Observe("io_uring_send_single", -1, {}, {}, <<>>, {}, {})
            /\ UNCHANGED uringVars
       ELSE \E res \in {len, -1} :
              LET queued == Append(ring.sq, res)
                  pool == ring.inflight (+) SeqToBag(queued)
              IN IF ~submit_ok
                 THEN \* io_uring_submit returned a negative errno (-EAGAIN)
                      /\ ring' = [ring EXCEPT !.sq = queued]
                      /\ RingRoom(ring')
                      /\ Observe("io_uring_send_single", -11, {}, {}, <<>>, {},
                                 {"io_uring_submit"})
                      /\ UNCHANGED <<io_uring_initialized, io_uring_sockfd,
                                     io_uring_stats, uring_ub, uring_fds>>
                 ELSE IF ~wait_ok
                 THEN \* io_uring_wait_cqe returned a negative errno (-EINTR)
                      /\ ring' = [ring EXCEPT !.sq = <<>>, !.inflight = pool]
                      /\ RingRoom(ring')
                      /\ Observe("io_uring_send_single", -4, {}, {}, <<>>, {},
                                 {"io_uring_wait_cqe"})
                      /\ UNCHANGED <<io_uring_initialized, io_uring_sockfd,
                                     io_uring_stats, uring_ub, uring_fds>>
                 ELSE \E e \in BagToSet(pool) :
                      /\ ring' = [ring EXCEPT !.sq = <<>>,
                                              !.inflight = pool (-) SetToBag({e})]
                      /\ Observe("io_uring_send_single", e, {}, {}, <<>>, {}, {})
                      /\ UNCHANGED <<io_uring_initialized, io_uring_sockfd,
                                     io_uring_stats, uring_ub, uring_fds>>

\* io_uring_get_stats(stats); stats_null: the caller passed a NULL pointer
io_uring_get_stats(stats_null) ==
    /\ ~uring_ub
    /\ IF io_uring_initialized = 0 \/ stats_null
       THEN /\ Observe("io_uring_get_stats", -1, {}, {}, <<>>, {}, {})
            /\ UNCHANGED uringVars
       ELSE \* *stats = io_uring_stats: the caller's block is written, the
            \* backend's own state is not
            /\ Observe("io_uring_get_stats", 0, {}, {}, <<>>, {}, {})
            /\ UNCHANGED uringVars

\* cleanup_io_uring without the memset of io_uring_stats
cleanup_io_uring_keeps_stats ==
    /\ ~uring_ub
    /\ IF io_uring_initialized = 1
       THEN /\ io_uring_sockfd' = -1
            /\ uring_fds' = IF io_uring_sockfd >= 0 THEN uring_fds - 1 ELSE uring_fds
            /\ ring' = [NoRing EXCEPT !.state = "exited"]
            /\ io_uring_initialized' = 0
            /\ Observe("cleanup_io_uring", 0,
                       (IF io_uring_sockfd >= 0 THEN {"sockfd"} ELSE {}) \cup {"ring"},
                       {}, <<>>, {}, {})
            /\ UNCHANGED <<io_uring_stats, uring_ub>>
       ELSE /\ Observe("cleanup_io_uring", 0, {}, {}, <<>>, {}, {})
            /\ UNCHANGED uringVars

cleanup_io_uring ==
    /\ ~uring_ub
    /\ IF io_uring_initialized = 1
       THEN /\ io_uring_sockfd' = -1
            /\ uring_fds' = IF io_uring_sockfd >= 0 THEN uring_fds - 1 ELSE uring_fds
            /\ ring' = [NoRing EXCEPT !.state = "exited"]
            /\ io_uring_initialized' = 0
            /\ io_uring_stats' = ZeroStats
            /\ Observe("cleanup_io_uring", 0,
                       (IF io_uring_sockfd >= 0 THEN {"sockfd"} ELSE {}) \cup {"ring"},
                       {}, <<>>, {}, {})
            /\ UNCHANGED <<uring_ub>>
       ELSE /\ Observe("cleanup_io_uring", 0, {}, {}, <<>>, {}, {})
            /\ UNCHANGED uringVars

(* ---------------------------------------------------------------------- *)
(* Raw socket and sendmmsg paths                                           *)
(* ---------------------------------------------------------------------- *)

\* the compile variants: __linux__, another POSIX system, _WIN32
Platforms == {"linux", "posix", "win32"}

\* the descriptors socket() may hand out
Fds == 3..(2 + MaxFds)

SockInit ==
    /\ open_fds = {}
    /\ wsa_refs = 0
    /\ last_fd = -1

\* socket() returns the lowest descriptor that is not open
LowestFree == CHOOSE fd \in Fds \ open_fds : \A g \in Fds \ open_fds : fd <= g

\* raw_socket_create(protocol); startup_ok: WSAStartup succeeds (it is called
\* in the _WIN32 build only, once per create, and each success adds a
\* reference to the socket library); socket_ok: socket() succeeds
raw_socket_create(startup_ok, socket_ok) ==
    LET win == platform = "win32"
        refs == IF win /\ startup_ok THEN wsa_refs + 1 ELSE wsa_refs
    IN /\ win => wsa_refs < MaxWsaRefs
       /\ ~win => startup_ok
       /\ wsa_refs' = refs
       /\ IF win /\ ~startup_ok
          THEN /\ Observe("raw_socket_create", -1, {}, {}, <<>>, {}, {"WSAStartup"})
               /\ last_fd' = -1
               /\ UNCHANGED open_fds
          ELSE IF socket_ok /\ Fds \ open_fds # {}
          THEN /\ open_fds' = open_fds \cup {LowestFree}
               /\ last_fd' = LowestFree
               /\ Observe("raw_socket_create", LowestFree, {},
                          IF win THEN {"socket", "winsock"} ELSE {"socket"},
                          <<>>, {}, {})
          ELSE /\ Observe("raw_socket_create", -1, {},
                          IF win THEN {"winsock"} ELSE {}, <<>>, {}, {"socket"})
               /\ last_fd' = -1
               /\ UNCHANGED open_fds
       /\ UNCHANGED platform

\* raw_socket_close(sockfd): CLOSE_SOCKET is called on whatever it is given,
\* and fails (EBADF, WSAENOTSOCK) on a descriptor that is not open; in the
\* _WIN32 build WSACleanup follows unconditionally: it drops one reference
\* to the socket library, and dropping the last one closes every socket
raw_socket_close(sockfd) ==
    LET win == platform = "win32"
        closed == IF sockfd \in open_fds THEN {"socket"} ELSE {}
        cleaned == IF win /\ wsa_refs > 0 THEN {"winsock"} ELSE {}
    IN /\ wsa_refs' = IF win /\ wsa_refs > 0 THEN wsa_refs - 1 ELSE wsa_refs
       /\ open_fds' = IF win /\ wsa_refs = 1 THEN {} ELSE open_fds \ {sockfd}
       /\ last_fd' = sockfd
       /\ Observe("raw_socket_close", 0, closed \cup cleaned, {}, <<>>, {},
                  IF sockfd \in open_fds THEN {} ELSE {"EBADF"})
       /\ UNCHANGED platform

\* AF_INET
AF_INET == 2

\* the length of an IPv4 header without options: raw_socket_send_ip's limit
IpHeaderLen == 20

\* raw_socket_send(sockfd, dst_ip, data, len): one sendto of the len bytes of
\* data to the AF_INET address dst_ip, and its result as an int.  dst_ip is
\* the four bytes the uint32_t holds in memory, which are the bytes of
\* sin_addr.s_addr; result is what sendto answers.
raw_socket_send(sockfd, dst_ip, data, result) ==
    [ret |-> result,
     calls |-> <<[sockfd |-> sockfd, data |-> data, len |-> Len(data),
                  sin_family |-> AF_INET, s_addr |-> dst_ip]>>]

\* raw_socket_send_ip handing a short buffer to sendto with a zero address
raw_socket_send_ip_sends_short(sockfd, data, result) ==
    IF Len(data) < IpHeaderLen
    THEN raw_socket_send(sockfd, <<0, 0, 0, 0>>, data, result)
    ELSE raw_socket_send(sockfd, SubSeq(data, 17, 20), data, result)

\* raw_socket_send_ip(sockfd, data, len): memcpy(&dst_ip, data + 16, 4)
\* copies bytes 16..19 (counted from 0), the elements 17..20 of the sequence
raw_socket_send_ip(sockfd, data, result) ==
    IF Len(data) < IpHeaderLen
    THEN [ret |-> -1, calls |-> <<>>]
    ELSE raw_socket_send(sockfd, SubSeq(data, 17, 20), data, result)

\* sendmmsg(2) sends the messages in order and stops at the first one that
\* fails: it returns the number sent, or -1 when not even the first was sent
SendmmsgResult(count, sent) == IF sent = 0 /\ count > 0 THEN -1 ELSE sent

\* sendmmsg_batch and sendmmsg_batch_same_dest of the Linux build; sent: how
\* many messages the kernel sent before it stopped
sendmmsg_linux(name, sockfd, lengths, alloc_ok, sent) ==
    /\ platform = "linux"
    /\ sent <= Len(lengths)
    /\ last_fd' = sockfd
    /\ IF ~alloc_ok
       THEN Observe(name, -1, {}, {}, lengths, {}, {"calloc"})
       ELSE IF sockfd \notin open_fds
       THEN /\ sent = 0
            /\ Observe(name, -1, {}, {}, lengths, {}, {"sendmmsg"})
       ELSE Observe(name, SendmmsgResult(Len(lengths), sent), {}, {}, lengths,
                    0..(sent - 1),
                    IF sent < Len(lengths) THEN {"sendmmsg"} ELSE {})
    /\ UNCHANGED <<open_fds, wsa_refs, platform>>

sendmmsg_batch(sockfd, lengths, alloc_ok, sent) ==
    sendmmsg_linux("sendmmsg_batch", sockfd, lengths, alloc_ok, sent)

sendmmsg_batch_same_dest(sockfd, lengths, alloc_ok, sent) ==
    sendmmsg_linux("sendmmsg_batch_same_dest", sockfd, lengths, alloc_ok, sent)

\* the fallback of the non-Linux builds: one sendto per packet, every packet
\* is tried, and the packets whose sendto returned > 0 are counted;
\* ok: the indices whose sendto succeeds
sendmmsg_fallback(name, sockfd, lengths, ok) ==
    /\ platform # "linux"
    /\ ok \subseteq 1..Len(lengths)
    /\ sockfd \notin open_fds => ok = {}
    /\ last_fd' = sockfd
    /\ Observe(name, Cardinality({i \in ok : lengths[i] > 0}), {}, {}, lengths,
               {i - 1 : i \in ok},
               IF ok # 1..Len(lengths) THEN {"sendto"} ELSE {})
    /\ UNCHANGED <<open_fds, wsa_refs, platform>>

sendmmsg_batch_fallback(sockfd, lengths, ok) ==
    sendmmsg_fallback("sendmmsg_batch", sockfd, lengths, ok)

sendmmsg_batch_same_dest_fallback(sockfd, lengths, ok) ==
    sendmmsg_fallback("sendmmsg_batch_same_dest", sockfd, lengths, ok)

(* ---------------------------------------------------------------------- *)
(* DPDK backend                                                            *)
(* ---------------------------------------------------------------------- *)

DpdkInit ==
    /\ dpdk_initialized = 0
    /\ mbuf_pool = "NULL"
    /\ eal = "never"
    /\ pool_free = 0
    /\ nic_mbufs = 0
    /\ mbuf_frees = <<>>
    /\ mbuf_allocs = <<>>

DpdkInitOutcomes == {"eal_fails", "pool_fails", "ok"}

\* dpdk_init(argc, argv).  rte_eal_init runs once per process: a call after
\* the first returns -1 (EALREADY) without initialising anything.
dpdk_init(out) ==
    /\ mbuf_frees' = <<>>
    /\ mbuf_allocs' = <<>>
    /\ IF eal # "never"
       THEN /\ Observe("dpdk_init", -1, {}, {}, <<>>, {}, {"rte_eal_init"})
            /\ UNCHANGED <<dpdk_initialized, mbuf_pool, eal, pool_free, nic_mbufs>>
       ELSE CASE out = "eal_fails" ->
                   /\ eal' = "failed"
                   /\ Observe("dpdk_init", -1, {}, {}, <<>>, {}, {"rte_eal_init"})
                   /\ UNCHANGED <<dpdk_initialized, mbuf_pool, pool_free, nic_mbufs>>
              [] out = "pool_fails" ->
                   /\ eal' = "up"
                   /\ mbuf_pool' = "NULL"
                   /\ Observe("dpdk_init", -1, {}, {"rte_eal_init"}, <<>>, {},
                              {"rte_pktmbuf_pool_create"})
                   /\ UNCHANGED <<dpdk_initialized, pool_free, nic_mbufs>>
              [] out = "ok" ->
                   /\ eal' = "up"
                   /\ mbuf_pool' = "live"
                   /\ pool_free' = PoolSize
                   /\ dpdk_initialized' = 1
                   /\ Observe("dpdk_init", 0, {}, {"rte_eal_init", "mbuf_pool"}, <<>>,
                              {}, {})
                   /\ UNCHANGED nic_mbufs

\* mbufs[0 .. n-1] have been taken from the pool by rte_pktmbuf_alloc
AllocatedBelow(count, n) == [j \in 1..count |-> IF j - 1 < n THEN 1 ELSE 0]

\* mbufs[i] == NULL: for (j = 0; j < i; j++) rte_pktmbuf_free(mbufs[j])
FreedOnAllocFail(count, i) == [j \in 1..count |-> IF j - 1 < i THEN 1 ELSE 0]

FreedOnAppendFail_skips_current(count, i) ==
    [j \in 1..count |-> IF j - 1 < i THEN 1 ELSE 0]

\* data == NULL: rte_pktmbuf_free(mbufs[i]), then the same loop over j < i
FreedOnAppendFail(count, i) ==
    [j \in 1..count |-> (IF j - 1 = i THEN 1 ELSE 0) + (IF j - 1 < i THEN 1 ELSE 0)]

FreedUnsent_from_zero(count, sent) == [j \in 1..count |-> 1]

\* for (i = sent; i < count; i++) rte_pktmbuf_free(mbufs[i])
FreedUnsent(count, sent) == [j \in 1..count |-> IF j - 1 >= sent THEN 1 ELSE 0]

\* dpdk_send_burst(port_id, packets, lengths, count).  alloc_fail and
\* append_fail: the index at which rte_pktmbuf_alloc / rte_pktmbuf_append
\* fails (count: it does not); sent: what rte_eth_tx_burst accepts.
\* mbuf_allocs[i] is 1 when the call allocated the mbuf of index i-1 and
\* mbuf_frees[i] the number of times the call freed it.  An allocation takes
\* an mbuf from the pool and a free returns one; an accepted mbuf is the
\* port's until it is transmitted.
dpdk_send_burst(lengths, alloc_fail, append_fail, sent) ==
    LET count == Len(lengths)
        \* the pool runs dry at index pool_free
        fail_at == Min(alloc_fail, pool_free)
    IN IF dpdk_initialized = 0 \/ mbuf_pool = "NULL"
       THEN /\ Observe("dpdk_send_burst", -1, {}, {}, lengths, {}, {})
            /\ mbuf_frees' = <<>>
            /\ mbuf_allocs' = <<>>
            /\ UNCHANGED <<dpdk_initialized, mbuf_pool, eal, pool_free, nic_mbufs>>
       ELSE IF fail_at < count /\ fail_at <= append_fail
       THEN \* mbufs[fail_at] == NULL: the fail_at mbufs before it are freed
            /\ mbuf_allocs' = AllocatedBelow(count, fail_at)
            /\ mbuf_frees' = FreedOnAllocFail(count, fail_at)
            /\ pool_free' = pool_free - SumSeq(mbuf_allocs') + SumSeq(mbuf_frees')
            /\ Observe("dpdk_send_burst", -1, {}, {}, lengths, {},
                       {"rte_pktmbuf_alloc"})
            /\ UNCHANGED <<dpdk_initialized, mbuf_pool, eal, nic_mbufs>>
       ELSE IF append_fail < count
       THEN \* data == NULL: mbufs[append_fail] and those before it are freed
            /\ mbuf_allocs' = AllocatedBelow(count, append_fail + 1)
            /\ mbuf_frees' = FreedOnAppendFail(count, append_fail)
            /\ pool_free' = pool_free - SumSeq(mbuf_allocs') + SumSeq(mbuf_frees')
            /\ Observe("dpdk_send_burst", -1, {}, {}, lengths, {},
                       {"rte_pktmbuf_append"})
            /\ UNCHANGED <<dpdk_initialized, mbuf_pool, eal, nic_mbufs>>
       ELSE /\ sent <= count
            /\ mbuf_allocs' = AllocatedBelow(count, count)
            /\ mbuf_frees' = FreedUnsent(count, sent)
            /\ pool_free' = pool_free - SumSeq(mbuf_allocs') + SumSeq(mbuf_frees')
            /\ nic_mbufs' = nic_mbufs + sent
            /\ Observe("dpdk_send_burst", sent, {}, {}, lengths, 0..(sent - 1),
                       IF sent < count THEN {"rte_eth_tx_burst"} ELSE {})
            /\ UNCHANGED <<dpdk_initialized, mbuf_pool, eal>>

\* the port transmits an accepted mbuf and returns it to the pool
NicTxDone ==
    /\ nic_mbufs > 0
    /\ nic_mbufs' = nic_mbufs - 1
    /\ pool_free' = pool_free + 1
    /\ UNCHANGED <<obsVars, dpdk_initialized, mbuf_pool, eal, mbuf_frees, mbuf_allocs>>

cleanup_dpdk ==
    /\ mbuf_frees' = <<>>
    /\ mbuf_allocs' = <<>>
    /\ IF dpdk_initialized = 1
       THEN /\ eal' = "cleaned"
            /\ dpdk_initialized' = 0
            /\ nic_mbufs' = 0
            /\ pool_free' = 0
            /\ Observe("cleanup_dpdk", 0, {"rte_eal"}, {}, <<>>, {}, {})
            /\ UNCHANGED mbuf_pool
       ELSE /\ Observe("cleanup_dpdk", 0, {}, {}, <<>>, {}, {})
            /\ UNCHANGED <<dpdk_initialized, mbuf_pool, eal, pool_free, nic_mbufs>>

(* ---------------------------------------------------------------------- *)
(* Backend detection and selection                                         *)
(* ---------------------------------------------------------------------- *)

\* backend_type_t
BACKEND_NONE == 0
BACKEND_RAW_SOCKET == 1
BACKEND_SENDMMSG == 2
BACKEND_IO_URING == 3
BACKEND_AF_XDP == 4
BACKEND_DPDK == 5

Backends == {BACKEND_RAW_SOCKET, BACKEND_SENDMMSG, BACKEND_IO_URING, BACKEND_AF_XDP,
             BACKEND_DPDK}

\* the kernel releases uname may report, as sscanf("%d.%d") parses them
KernelMajors == 2..MaxMajor
KernelMinors == {0, 1, 17, 18}

\* the builds: which of HAS_DPDK, HAS_AF_XDP, HAS_IO_URING are defined
Builds == [dpdk : BOOLEAN, af_xdp : BOOLEAN, io_uring : BOOLEAN]

Flag(b) == IF b THEN 1 ELSE 0

\* detect_capabilities with the AF_XDP test reading minor >= 17
detect_capabilities_xdp_4_17(b, uname_ok, major, minor) ==
    LET kernel_version_major == IF uname_ok THEN major ELSE 0
        kernel_version_minor == IF uname_ok THEN minor ELSE 0
    IN [has_dpdk |-> Flag(b.dpdk),
        has_af_xdp |-> Flag((kernel_version_major > 4
                               \/ (kernel_version_major = 4 /\ kernel_version_minor >= 17))
                             /\ b.af_xdp),
        has_io_uring |-> Flag((kernel_version_major > 5
                                 \/ (kernel_version_major = 5 /\ kernel_version_minor >= 1))
                               /\ b.io_uring),
        has_sendmmsg |-> Flag(kernel_version_major >= 3),
        has_raw_socket |-> 1,
        kernel_version_major |-> kernel_version_major,
        kernel_version_minor |-> kernel_version_minor]

\* detect_capabilities(caps) on Linux: the record it fills, given the build,
\* whether uname succeeded and the release it reported
detect_capabilities(b, uname_ok, major, minor) ==
    LET kernel_version_major == IF uname_ok THEN major ELSE 0
        kernel_version_minor == IF uname_ok THEN minor ELSE 0
    IN [has_dpdk |-> Flag(b.dpdk),
        has_af_xdp |-> Flag((kernel_version_major > 4
                               \/ (kernel_version_major = 4 /\ kernel_version_minor >= 18))
                             /\ b.af_xdp),
        has_io_uring |-> Flag((kernel_version_major > 5
                                 \/ (kernel_version_major = 5 /\ kernel_version_minor >= 1))
                               /\ b.io_uring),
        has_sendmmsg |-> Flag(kernel_version_major >= 3),
        has_raw_socket |-> 1,
        kernel_version_major |-> kernel_version_major,
        kernel_version_minor |-> kernel_version_minor]

NoCaps == [has_dpdk |-> 0, has_af_xdp |-> 0, has_io_uring |-> 0, has_sendmmsg |-> 0,
           has_raw_socket |-> 0, kernel_version_major |-> 0, kernel_version_minor |-> 0]

\* select_best_backend without its sendmmsg branch
select_best_backend_skips_sendmmsg(c) ==
    IF c.has_dpdk # 0 THEN BACKEND_DPDK
    ELSE IF c.has_af_xdp # 0 THEN BACKEND_AF_XDP
    ELSE IF c.has_io_uring # 0 THEN BACKEND_IO_URING
    ELSE BACKEND_RAW_SOCKET

\* select_best_backend testing has_sendmmsg first
select_best_backend_sendmmsg_first(c) ==
    IF c.has_sendmmsg # 0 THEN BACKEND_SENDMMSG
    ELSE IF c.has_dpdk # 0 THEN BACKEND_DPDK
    ELSE IF c.has_af_xdp # 0 THEN BACKEND_AF_XDP
    ELSE IF c.has_io_uring # 0 THEN BACKEND_IO_URING
    ELSE BACKEND_RAW_SOCKET

\* select_best_backend with io_uring ranked above AF_XDP
select_best_backend_swapped(c) ==
    IF c.has_dpdk # 0 THEN BACKEND_DPDK
    ELSE IF c.has_io_uring # 0 THEN BACKEND_IO_URING
    ELSE IF c.has_af_xdp # 0 THEN BACKEND_AF_XDP
    ELSE IF c.has_sendmmsg # 0 THEN BACKEND_SENDMMSG
    ELSE BACKEND_RAW_SOCKET

\* select_best_backend(caps)
select_best_backend(c) ==
    IF c.has_dpdk # 0 THEN BACKEND_DPDK
    ELSE IF c.has_af_xdp # 0 THEN BACKEND_AF_XDP
    ELSE IF c.has_io_uring # 0 THEN BACKEND_IO_URING
    ELSE IF c.has_sendmmsg # 0 THEN BACKEND_SENDMMSG
    ELSE BACKEND_RAW_SOCKET

(* ---------------------------------------------------------------------- *)
(* Driver facade: open with fallback, close                                *)
(* ---------------------------------------------------------------------- *)

\* a build with every optional backend compiled in
FullBuild == [dpdk |-> TRUE, af_xdp |-> TRUE, io_uring |-> TRUE]

FacadeInit ==
    /\ caps = NoCaps
    /\ open_pc = "closed"
    /\ cand = BACKEND_NONE
    /\ usable = NoCaps
    /\ failed_inits = {}
    /\ active = {}

\* the capability record with the flag of backend b cleared
Without(c, b) ==
    CASE b = BACKEND_DPDK -> [c EXCEPT !.has_dpdk = 0]
      [] b = BACKEND_AF_XDP -> [c EXCEPT !.has_af_xdp = 0]
      [] b = BACKEND_IO_URING -> [c EXCEPT !.has_io_uring = 0]
      [] b = BACKEND_SENDMMSG -> [c EXCEPT !.has_sendmmsg = 0]
      [] OTHER -> [c EXCEPT !.has_raw_socket = 0]

\* open: the probe and the selector
facade_open(uname_ok, major, minor) ==
    /\ open_pc = "closed"
    /\ caps' = detect_capabilities(build, uname_ok, major, minor)
    /\ usable' = caps'
    /\ cand' = select_best_backend(caps')
    /\ failed_inits' = {}
    /\ open_pc' = "init"
    /\ Observe("open", 0, {}, {}, <<>>, {}, {})
    /\ UNCHANGED <<build, active>>

\* open: the initializer of the candidate backend succeeded
facade_init_ok ==
    /\ open_pc = "init"
    /\ active' = active \cup {cand}
    /\ open_pc' = "open"
    /\ Observe("open", cand, {}, {cand}, <<>>, {}, {})
    /\ UNCHANGED <<build, caps, cand, usable, failed_inits>>

\* open: the initializer of the candidate backend failed; the next
\* lower-priority backend that remains available is tried, and open fails
\* when the raw socket was the one that failed
facade_init_fails ==
    /\ open_pc = "init"
    /\ failed_inits' = failed_inits \cup {cand}
    /\ IF cand = BACKEND_RAW_SOCKET
       THEN /\ open_pc' = "failed"
            /\ cand' = BACKEND_NONE
            /\ usable' = Without(usable, cand)
            /\ Observe("open", -1, {}, {}, <<>>, {}, {"backend_init_failed"})
       ELSE /\ usable' = Without(usable, cand)
            /\ cand' = select_best_backend(usable')
            /\ open_pc' = "init"
            /\ Observe("open", 0, {}, {}, <<>>, {}, {"backend_init_failed"})
    /\ UNCHANGED <<build, caps, active>>

\* close: releases the active backend; a second close finds nothing to do
facade_close ==
    /\ open_pc \in {"open", "failed", "closed"}
    /\ open_pc' = "closed"
    /\ active' = {}
    /\ cand' = BACKEND_NONE
    /\ Observe("close", 0, active, {}, <<>>, {}, {})
    /\ UNCHANGED <<build, caps, usable, failed_inits>>

(* ---------------------------------------------------------------------- *)
(* Checksum calculations                                                   *)
(* ---------------------------------------------------------------------- *)

\* The accumulator is a uint32_t.  It wraps only after more than 2^16 words
\* have been added; the sums of the model stay far below 2^31, so the
\* additions below are the additions of the code.

\* the two loops over data: 16-bit big-endian words from byte i on (i counts
\* from 0 as in the code), then the odd byte as the high byte of a word
RECURSIVE SumWordsFrom(_, _, _)
SumWordsFrom(data, i, sum) ==
    IF i + 1 < Len(data)
    THEN SumWordsFrom(data, i + 2, sum + (data[i + 1] * 256 + data[i + 2]))
    ELSE IF i < Len(data) THEN sum + data[i + 1] * 256
    ELSE sum

\* while (sum >> 16) sum = (sum & 0xFFFF) + (sum >> 16)
RECURSIVE Fold(_)
Fold(sum) ==
    IF sum \div 65536 # 0 THEN Fold((sum % 65536) + (sum \div 65536)) ELSE sum

\* (uint16_t)(~sum)
Complement16(sum) == 65535 - (sum % 65536)

\* calculate_checksum returning the truncated complement of the unfolded sum
calculate_checksum_no_fold(data) ==
    Complement16(SumWordsFrom(data, 0, 0))

\* calculate_checksum returning the folded sum without complementing it
calculate_checksum_no_complement(data) ==
    Fold(SumWordsFrom(data, 0, 0))

\* calculate_checksum(data, len)
calculate_checksum(data) ==
    Complement16(Fold(SumWordsFrom(data, 0, 0)))

\* A uint32_t address is written as its two 16-bit halves <<hi, lo>>:
\* (ip >> 16) & 0xFFFF is ip[1] and ip & 0xFFFF is ip[2].

\* calculate_transport_checksum without sum += len
calculate_transport_checksum_no_len(src_ip, dst_ip, protocol, data) ==
    Complement16(Fold(SumWordsFrom(data, 0,
        src_ip[1] + src_ip[2] + dst_ip[1] + dst_ip[2] + protocol)))

\* calculate_transport_checksum adding the protocol as the high byte of a word
calculate_transport_checksum_protocol_high(src_ip, dst_ip, protocol, data) ==
    Complement16(Fold(SumWordsFrom(data, 0,
        src_ip[1] + src_ip[2] + dst_ip[1] + dst_ip[2] + protocol * 256 + Len(data))))

\* calculate_transport_checksum(src_ip, dst_ip, protocol, data, len)
calculate_transport_checksum(src_ip, dst_ip, protocol, data) ==
    Complement16(Fold(SumWordsFrom(data, 0,
        src_ip[1] + src_ip[2] + dst_ip[1] + dst_ip[2] + protocol + Len(data))))

(* ---------------------------------------------------------------------- *)
(* Specifications                                                          *)
(* ---------------------------------------------------------------------- *)

NextXdp ==
    \/ \E out \in InitOutcomes :
         init_af_xdp(out) /\ UNCHANGED <<uringVars, sockVars, dpdkVars, facadeVars, pureVars>>
    \/ \E len \in PktLens :
         af_xdp_send(len) /\ UNCHANGED <<uringVars, sockVars, dpdkVars, facadeVars, pureVars>>
    \/ \E lengths \in Batches :
         af_xdp_send_batch(lengths) /\ UNCHANGED <<uringVars, sockVars, dpdkVars, facadeVars, pureVars>>
    \/ \E max_len \in PktLens :
         af_xdp_recv(max_len) /\ UNCHANGED <<uringVars, sockVars, dpdkVars, facadeVars, pureVars>>
    \/ af_xdp_recv_refill /\ UNCHANGED <<uringVars, sockVars, dpdkVars, facadeVars, pureVars>>
    \/ cleanup_af_xdp /\ UNCHANGED <<uringVars, sockVars, dpdkVars, facadeVars, pureVars>>
    \/ \E len \in PktLens : KernelRx(len) /\ UNCHANGED <<uringVars, sockVars, dpdkVars, facadeVars, pureVars>>
    \/ KernelTx /\ UNCHANGED <<uringVars, sockVars, dpdkVars, facadeVars, pureVars>>

NextUring ==
    \/ \E qd \in 0..MaxQueueDepth, out \in UringInitOutcomes :
         init_io_uring(qd, out) /\ UNCHANGED <<xdpVars, sockVars, dpdkVars, facadeVars, pureVars>>
    \/ \E lengths \in Batches, alloc_ok \in BOOLEAN, submit_ok \in BOOLEAN :
         io_uring_send_batch(lengths, alloc_ok, submit_ok)
           /\ UNCHANGED <<xdpVars, sockVars, dpdkVars, facadeVars, pureVars>>
    \/ \E len \in PktLens, submit_ok \in BOOLEAN, wait_ok \in BOOLEAN :
         io_uring_send_single(len, submit_ok, wait_ok)
           /\ UNCHANGED <<xdpVars, sockVars, dpdkVars, facadeVars, pureVars>>
    \/ \E stats_null \in BOOLEAN :
         io_uring_get_stats(stats_null) /\ UNCHANGED <<xdpVars, sockVars, dpdkVars, facadeVars, pureVars>>
    \/ cleanup_io_uring /\ UNCHANGED <<xdpVars, sockVars, dpdkVars, facadeVars, pureVars>>

NextSock ==
    \/ \E startup_ok \in BOOLEAN, socket_ok \in BOOLEAN :
         raw_socket_create(startup_ok, socket_ok) /\ UNCHANGED <<xdpVars, uringVars, dpdkVars, facadeVars, pureVars>>
    \/ \E sockfd \in Fds :
         raw_socket_close(sockfd) /\ UNCHANGED <<xdpVars, uringVars, dpdkVars, facadeVars, pureVars>>
    \/ \E sockfd \in Fds, lengths \in Batches, alloc_ok \in BOOLEAN, sent \in 0..MaxBatch :
         sendmmsg_batch(sockfd, lengths, alloc_ok, sent)
           /\ UNCHANGED <<xdpVars, uringVars, dpdkVars, facadeVars, pureVars>>
    \/ \E sockfd \in Fds, lengths \in Batches, alloc_ok \in BOOLEAN, sent \in 0..MaxBatch :
         sendmmsg_batch_same_dest(sockfd, lengths, alloc_ok, sent)
           /\ UNCHANGED <<xdpVars, uringVars, dpdkVars, facadeVars, pureVars>>
    \/ \E sockfd \in Fds, lengths \in Batches, ok \in SUBSET (1..MaxBatch) :
         sendmmsg_batch_fallback(sockfd, lengths, ok)
           /\ UNCHANGED <<xdpVars, uringVars, dpdkVars, facadeVars, pureVars>>
    \/ \E sockfd \in Fds, lengths \in Batches, ok \in SUBSET (1..MaxBatch) :
         sendmmsg_batch_same_dest_fallback(sockfd, lengths, ok)
           /\ UNCHANGED <<xdpVars, uringVars, dpdkVars, facadeVars, pureVars>>

NextDpdk ==
    \/ \E out \in DpdkInitOutcomes :
         dpdk_init(out) /\ UNCHANGED <<xdpVars, uringVars, sockVars, facadeVars, pureVars>>
    \/ \E lengths \in Batches, alloc_fail \in 0..MaxBatch, append_fail \in 0..MaxBatch,
          sent \in 0..MaxBatch :
         dpdk_send_burst(lengths, alloc_fail, append_fail, sent)
           /\ UNCHANGED <<xdpVars, uringVars, sockVars, facadeVars, pureVars>>
    \/ NicTxDone /\ UNCHANGED <<xdpVars, uringVars, sockVars, facadeVars, pureVars>>
    \/ cleanup_dpdk /\ UNCHANGED <<xdpVars, uringVars, sockVars, facadeVars, pureVars>>

NextOpen ==
    \/ \E uname_ok \in BOOLEAN, major \in KernelMajors, minor \in KernelMinors :
         facade_open(uname_ok, major, minor)
           /\ UNCHANGED <<xdpVars, uringVars, sockVars, dpdkVars, pureVars>>
    \/ facade_init_ok /\ UNCHANGED <<xdpVars, uringVars, sockVars, dpdkVars, pureVars>>
    \/ facade_init_fails /\ UNCHANGED <<xdpVars, uringVars, sockVars, dpdkVars, pureVars>>
    \/ facade_close /\ UNCHANGED <<xdpVars, uringVars, sockVars, dpdkVars, pureVars>>

\* no pure function is being called
PureIdle ==
    /\ sel_in = <<>> /\ sel_out = <<>>
    /\ probe_in = <<>> /\ probe_out = <<>>
    /\ csum_in = <<>> /\ csum_out = <<>>
    /\ send_in = <<>> /\ send_out = <<>>

InitBackends == ObsInit /\ XdpInit /\ UringInit /\ SockInit /\ DpdkInit /\ FacadeInit

BackendsIdle == InitBackends /\ build = FullBuild /\ platform = "linux"

\* the backends are exercised in the Linux build that has them all
InitAll == BackendsIdle /\ PureIdle

\* the raw socket and the sendmmsg paths are exercised on every platform
InitSock == InitBackends /\ build = FullBuild /\ platform \in Platforms /\ PureIdle

\* the facade is exercised in every build
InitOpen == InitBackends /\ build \in Builds /\ platform = "linux" /\ PureIdle

SpecXdp == InitAll /\ [][NextXdp]_vars

\* the kernel transmits what is on the tx ring whenever it can, and the caller
\* keeps calling af_xdp_send_batch with at least one packet
KernelTxStep == KernelTx /\ UNCHANGED <<uringVars, sockVars, dpdkVars, facadeVars, pureVars>>

SendBatchStep ==
    \E lengths \in Batches :
        /\ Len(lengths) >= 1
        /\ af_xdp_send_batch(lengths)
        /\ UNCHANGED <<uringVars, sockVars, dpdkVars, facadeVars, pureVars>>

SpecXdpFair == SpecXdp /\ WF_vars(KernelTxStep) /\ WF_vars(SendBatchStep)

SpecUring == InitAll /\ [][NextUring]_vars

SpecSock == InitSock /\ [][NextSock]_vars

SpecDpdk == InitAll /\ [][NextDpdk]_vars

SpecOpen == InitOpen /\ [][NextOpen]_vars

\* ---- select_best_backend as a function of its argument ----

\* the capability records: has_raw_socket is always set (line 858), the
\* other flags are free; the selector does not read the kernel version
CapRecords ==
    {[NoCaps EXCEPT !.has_raw_socket = 1, !.has_dpdk = d, !.has_af_xdp = x,
                    !.has_io_uring = u, !.has_sendmmsg = m] :
        d \in {0, 1}, x \in {0, 1}, u \in {0, 1}, m \in {0, 1}}

InitSelect ==
    /\ BackendsIdle
    /\ sel_in \in CapRecords \X CapRecords
    /\ sel_out = <<>>
    /\ probe_in = <<>> /\ probe_out = <<>>
    /\ csum_in = <<>> /\ csum_out = <<>>
    /\ send_in = <<>> /\ send_out = <<>>

\* select_best_backend is called on each of the two records
SelectCall ==
    /\ sel_out = <<>>
    /\ sel_out' = <<select_best_backend(sel_in[1]), select_best_backend(sel_in[2])>>
    /\ UNCHANGED <<sel_in, probe_in, probe_out, csum_in, csum_out, send_in, send_out>>

NextSelect ==
    \/ SelectCall /\ UNCHANGED <<obsVars, xdpVars, uringVars, sockVars, dpdkVars, facadeVars>>

SpecSelect == InitSelect /\ [][NextSelect]_vars

\* ---- detect_capabilities as a function of the build and the kernel ----

ProbeInputs ==
    [build : Builds, uname_ok : BOOLEAN, major : KernelMajors, minor : KernelMinors]

InitProbe ==
    /\ BackendsIdle
    /\ probe_in \in ProbeInputs
    /\ probe_out = <<>>
    /\ sel_in = <<>> /\ sel_out = <<>>
    /\ csum_in = <<>> /\ csum_out = <<>>
    /\ send_in = <<>> /\ send_out = <<>>

\* detect_capabilities(caps) is called; it returns 0 on every path
ProbeCall ==
    /\ probe_out = <<>>
    /\ probe_out' = [ret |-> 0,
                     caps |-> detect_capabilities(probe_in.build, probe_in.uname_ok,
                                                  probe_in.major, probe_in.minor)]
    /\ UNCHANGED <<probe_in, sel_in, sel_out, csum_in, csum_out, send_in, send_out>>

NextProbe ==
    \/ ProbeCall /\ UNCHANGED <<obsVars, xdpVars, uringVars, sockVars, dpdkVars, facadeVars>>

SpecProbe == InitProbe /\ [][NextProbe]_vars

\* ---- the checksum functions as functions of their arguments ----

\* the byte values short sequences are made of
SampleBytes == {0, 1, 128, 255}

\* every sequence of sample bytes of length 0..MaxCsumLen
ShortByteSeqs == UNION {[1..n -> SampleBytes] : n \in 0..MaxCsumLen}

\* scenario S1: an IPv4 header with its checksum field zeroed
S1Header ==
    <<69, 0, 0, 60, 28, 70, 64, 0, 64, 6, 0, 0, 172, 16, 10, 99, 172, 16, 10, 12>>

\* scenario S2: UDP header (ports 1234 and 5678, length 13, checksum 0) and
\* the payload 48 65 6c 6c 6f
S2Segment == <<4, 210, 22, 46, 0, 13, 0, 0, 72, 101, 108, 108, 111>>

\* 192.168.1.1 and 192.168.1.2 as the numbers 0xC0A80101 and 0xC0A80102
S2Addrs == <<<<49320, 257>>, <<49320, 258>>>>

\* the same addresses as a little-endian host reads their four wire bytes:
\* 0x0101A8C0 and 0x0201A8C0
S2AddrsWire == <<<<257, 43200>>, <<513, 43200>>>>

\* 255.255.255.255 twice: every half of the pseudo-header carries
AllOnesAddrs == <<<<65535, 65535>>, <<65535, 65535>>>>

NoSum == -1

CsumInputs ==
    [data : ShortByteSeqs \cup {S1Header, S2Segment},
     addrs : {S2Addrs, S2AddrsWire, AllOnesAddrs},
     protocol : {6, 17}]

InitCsum ==
    /\ BackendsIdle
    /\ csum_in \in CsumInputs
    /\ csum_out = [sum |-> NoSum, again |-> NoSum, transport |-> NoSum, pseudo |-> NoSum]
    /\ send_in = <<>> /\ send_out = <<>>
    /\ sel_in = <<>> /\ sel_out = <<>>
    /\ probe_in = <<>> /\ probe_out = <<>>

\* the two bytes of a 16-bit value in big-endian order
BigEndian16(v) == <<v \div 256, v % 256>>

\* calculate_checksum is called on the data
ChecksumCall ==
    /\ csum_out.sum = NoSum
    /\ csum_out' = [csum_out EXCEPT !.sum = calculate_checksum(csum_in.data)]
    /\ UNCHANGED <<csum_in, sel_in, sel_out, probe_in, probe_out, send_in, send_out>>

\* calculate_checksum is called on the data extended by its checksum
ChecksumAgain ==
    /\ csum_out.sum # NoSum
    /\ csum_out.again = NoSum
    /\ csum_out' = [csum_out EXCEPT
                      !.again = calculate_checksum(csum_in.data \o BigEndian16(csum_out.sum))]
    /\ UNCHANGED <<csum_in, sel_in, sel_out, probe_in, probe_out, send_in, send_out>>

\* calculate_transport_checksum is called on the data as a segment
TransportCall ==
    /\ csum_out.transport = NoSum
    /\ csum_out' = [csum_out EXCEPT
                      !.transport = calculate_transport_checksum(csum_in.addrs[1],
                                        csum_in.addrs[2], csum_in.protocol, csum_in.data)]
    /\ UNCHANGED <<csum_in, sel_in, sel_out, probe_in, probe_out, send_in, send_out>>

\* the 12 bytes of the IPv4 pseudo-header as they lie in memory: the halves
\* of the source and of the destination address, a zero byte and the
\* protocol, and the length, each 16-bit value in big-endian order
PseudoHeader(src_ip, dst_ip, protocol, len) ==
    BigEndian16(src_ip[1]) \o BigEndian16(src_ip[2]) \o BigEndian16(dst_ip[1])
        \o BigEndian16(dst_ip[2]) \o <<0, protocol>> \o BigEndian16(len)

\* calculate_checksum is called on the pseudo-header followed by the data
PseudoHeaderCall ==
    /\ csum_out.pseudo = NoSum
    /\ csum_out' = [csum_out EXCEPT
                      !.pseudo = calculate_checksum(
                                    PseudoHeader(csum_in.addrs[1], csum_in.addrs[2],
                                                 csum_in.protocol, Len(csum_in.data))
                                        \o csum_in.data)]
    /\ UNCHANGED <<csum_in, sel_in, sel_out, probe_in, probe_out, send_in, send_out>>

NextCsum ==
    \/ ChecksumCall /\ UNCHANGED <<obsVars, xdpVars, uringVars, sockVars, dpdkVars, facadeVars>>
    \/ ChecksumAgain /\ UNCHANGED <<obsVars, xdpVars, uringVars, sockVars, dpdkVars, facadeVars>>
    \/ TransportCall /\ UNCHANGED <<obsVars, xdpVars, uringVars, sockVars, dpdkVars, facadeVars>>
    \/ PseudoHeaderCall /\ UNCHANGED <<obsVars, xdpVars, uringVars, sockVars, dpdkVars, facadeVars>>

SpecCsum == InitCsum /\ [][NextCsum]_vars

\* ---- raw_socket_send_ip called on its own ----

\* destination addresses as the four bytes of the header field
DstSamples == {<<10, 0, 0, 1>>, <<192, 168, 1, 2>>, <<255, 255, 255, 255>>}

\* a buffer of len bytes: byte i (counted from 0) holds i + 1, and the bytes
\* of the destination field that fit into it hold dst
SendBuffer(len, dst) == [i \in 1..len |-> IF i \in 17..20 THEN dst[i - 16] ELSE i]

\* sendto sends the whole datagram or fails
SendInputs ==
    UNION {[sockfd : Fds, data : {SendBuffer(len, dst)}, result : {-1, len}] :
             len \in 0..MaxSendLen, dst \in DstSamples}

InitSendIp ==
    /\ BackendsIdle
    /\ send_in \in SendInputs
    /\ send_out = [done |-> FALSE, ret |-> 0, calls |-> <<>>]
    /\ sel_in = <<>> /\ sel_out = <<>>
    /\ probe_in = <<>> /\ probe_out = <<>>
    /\ csum_in = <<>> /\ csum_out = <<>>

SendIpCall ==
    /\ ~send_out.done
    /\ LET r == raw_socket_send_ip(send_in.sockfd, send_in.data, send_in.result)
       IN send_out' = [done |-> TRUE, ret |-> r.ret, calls |-> r.calls]
    /\ UNCHANGED <<send_in, sel_in, sel_out, probe_in, probe_out, csum_in, csum_out>>

NextSendIp ==
    \/ SendIpCall /\ UNCHANGED <<obsVars, xdpVars, uringVars, sockVars, dpdkVars, facadeVars>>

SpecSendIp == InitSendIp /\ [][NextSendIp]_vars

(* ---------------------------------------------------------------------- *)
(* Properties                                                              *)
(* ---------------------------------------------------------------------- *)

\* the frame addresses the user thread holds: the shim keeps no free list and
\* never reads the completion ring, so it holds a frame only inside
\* af_xdp_recv, between the release of the rx descriptor and the refill
UserHeld == IF recv_pc = "refill" THEN SetToBag({recv_desc.addr}) ELSE EmptyBag

DescAddrs(q) == [i \in 1..Len(q) |-> q[i].addr]

\* every frame address referenced by the fill ring, the tx ring, the rx ring,
\* the completion ring and the user, with multiplicity
FrameRefs ==
    SeqToBag(fq) (+) SeqToBag(DescAddrs(tx_ring.q)) (+) SeqToBag(DescAddrs(rx_ring))
      (+) SeqToBag(cq) (+) UserHeld

\* the backend was initialised successfully and holds one memory area, one
\* UMEM and one socket (no init was stacked on a live backend)
XdpUp == xsk = "live" /\ ~xdp_ub /\ xdp_live = [xsk |-> 1, umem |-> 1, area |-> 1]

\* C1: XDP frame conservation: once init_af_xdp has succeeded, the multiset of
\* frame addresses held in fill, tx, rx-in-flight, completion and user-held
\* is exactly {0, FRAME_SIZE, ..., (NUM_FRAMES-1)*FRAME_SIZE}, each once.
C1_FrameConservation ==
    XdpUp => FrameRefs = SetToBag(FrameAddrs)

\* C2: once init_af_xdp has succeeded, no frame address is posted in the fill
\* ring and in the tx ring at the same time.
C2_FillTxDisjoint ==
    XdpUp => SeqRange(fq) \cap SeqRange(DescAddrs(tx_ring.q)) = {}

BatchSends == {"io_uring_send_batch", "sendmmsg_batch", "sendmmsg_batch_same_dest",
               "af_xdp_send_batch", "dpdk_send_burst"}

\* C3: prefix semantics of batch sends: a batch send that returns k >= 0 has
\* handed off exactly the packets at input indices 0..k-1.
C3_PrefixSemantics ==
    (call \in BatchSends /\ ret >= 0) => handed = 0..(ret - 1)

\* C4: per-batch drain: an io_uring_send_batch that starts on an empty ring
\* leaves, when it returns, no prepared or submitted operation whose
\* completion has not been consumed.
C4_BatchDrain ==
    [][(call' = "io_uring_send_batch" /\ ring.sq = <<>> /\ ring.inflight = EmptyBag)
         => (ring'.sq = <<>> /\ ring'.inflight = EmptyBag)]_vars

\* C5: batch accounting: a successful io_uring_send_batch (its allocation,
\* submission and waits all succeeded) that returns k >= 0 has raised
\* packets_sent by at least k and bytes_sent by the sum of the lengths of the
\* first k packets of the batch.
C5_BatchAccounting ==
    (call = "io_uring_send_batch" /\ ret >= 0 /\ fault = {}) =>
        /\ ret <= Len(lens)
        /\ io_uring_stats.packets_sent - pre_stats.packets_sent >= ret
        /\ io_uring_stats.bytes_sent - pre_stats.bytes_sent = SumSeq(SubSeq(lens, 1, ret))

\* C6: no counter of the stats block decreases over a call other than
\* cleanup_io_uring, and every cleanup_io_uring leaves all counters at zero.
C6_StatsMonotone ==
    /\ call # "cleanup_io_uring" =>
          \A f \in StatFields : io_uring_stats[f] >= pre_stats[f]
    /\ call = "cleanup_io_uring" => io_uring_stats = ZeroStats

\* a close that found counted packets and counted errors and reset them
C6_Witness ==
    /\ call = "cleanup_io_uring"
    /\ pre_stats.packets_sent > 0
    /\ pre_stats.errors > 0
    /\ pre_stats.bytes_sent > 0
    /\ io_uring_stats = ZeroStats

CloseOps == {"raw_socket_close", "cleanup_dpdk", "cleanup_af_xdp", "cleanup_io_uring"}

\* C7: idempotent close: a close operation called a second time directly
\* after a first one that succeeded (on the same descriptor, for the raw
\* socket) releases no resource again and leaves the state of every backend
\* unchanged.
C7_IdempotentClose ==
    [][(call \in CloseOps /\ fault = {} /\ call' = call /\ last_fd' = last_fd)
         => (released' = {}
             /\ UNCHANGED <<open_fds, wsa_refs, xdpVars, uringVars, dpdkVars>>)]_vars

\* C8: one-shot process-wide initialization: an init call made while the
\* backend is already initialized does not perform the initialization
\* (environment init and pool creation; area allocation and registration)
\* again.
C8_OneShotInit ==
    [][/\ (call' = "dpdk_init" /\ dpdk_initialized = 1) => acquired' = {}
       /\ (call' = "init_af_xdp" /\ xsk # "NULL") => acquired' = {}]_vars

Available(c, b) ==
    CASE b = BACKEND_DPDK -> c.has_dpdk # 0
      [] b = BACKEND_AF_XDP -> c.has_af_xdp # 0
      [] b = BACKEND_IO_URING -> c.has_io_uring # 0
      [] b = BACKEND_SENDMMSG -> c.has_sendmmsg # 0
      [] b = BACKEND_RAW_SOCKET -> c.has_raw_socket # 0
      [] OTHER -> FALSE

\* the available backend of highest priority below priority bound p
BestBelow(c, p) ==
    CHOOSE b \in Backends :
        /\ b < p /\ Available(c, b)
        /\ \A q \in Backends : (q < p /\ Available(c, q)) => q <= b

\* C9: fallback at open: open first tries the available backend of highest
\* priority; when an initializer fails it tries the next lower-priority
\* backend available in the capability record; it fails only when the raw
\* socket initializer has failed; a successful open leaves exactly one
\* backend active.
C9_FallbackAtOpen ==
    /\ [](open_pc = "init" /\ failed_inits = {} => cand = BestBelow(caps, BACKEND_DPDK + 1))
    /\ [][(open_pc = "init" /\ failed_inits' # failed_inits /\ cand # BACKEND_RAW_SOCKET)
            => (open_pc' = "init" /\ cand' = BestBelow(caps, cand))]_vars
    /\ [](open_pc = "failed" => BACKEND_RAW_SOCKET \in failed_inits)
    /\ [](open_pc = "open" => (Cardinality(active) = 1 /\ active \cap failed_inits = {}))

\* an open that fell back twice before a backend initialised
C9_Witness ==
    /\ open_pc = "open"
    /\ failed_inits = {BACKEND_DPDK, BACKEND_AF_XDP}
    /\ active = {BACKEND_IO_URING}

\* C10: soft backpressure is a short return: a send on an initialized backend
\* that finds no free tx-ring slot or submission-queue slot returns a
\* non-negative count smaller than the number requested, not a negative value.
C10_SoftBackpressure ==
    [][/\ (call' = "af_xdp_send" /\ xsk # "NULL" /\ Len(tx_ring.q) = NUM_FRAMES)
            => ret' = 0
       /\ (call' = "af_xdp_send_batch" /\ xsk # "NULL" /\ Len(tx_ring.q) = NUM_FRAMES
             /\ Len(lens') >= 1)
            => (0 <= ret' /\ ret' < Len(lens'))
       /\ (call' = "io_uring_send_single" /\ io_uring_initialized = 1
             /\ ring.state = "live" /\ Len(ring.sq) = ring.entries)
            => ret' = 0
       /\ (call' = "io_uring_send_batch" /\ io_uring_initialized = 1
             /\ ring.state = "live" /\ Len(ring.sq) = ring.entries
             /\ "calloc" \notin fault' /\ Len(lens') >= 1)
            => (0 <= ret' /\ ret' < Len(lens'))]_vars

\* ---- detect_capabilities as a function of the build and the kernel ----

\* C13: on Linux detect_capabilities returns 0 and sets has_raw_socket always,
\* has_sendmmsg iff major >= 3, has_io_uring iff the kernel is 5.1 or later and
\* io_uring is compiled in, has_af_xdp iff the kernel is 4.18 or later and XDP
\* is compiled in, has_dpdk iff DPDK is compiled in; when the release cannot
\* be read the version is 0.0 and the three kernel-dependent flags are clear.
C13_ProbeFlags ==
    probe_out # <<>> =>
        LET in == probe_in
            c == probe_out.caps
            M == in.major
            m == in.minor
        IN /\ probe_out.ret = 0
           /\ c.has_raw_socket = 1
           /\ c.has_dpdk = 1 <=> in.build.dpdk
           /\ c.has_dpdk \in {0, 1} /\ c.has_af_xdp \in {0, 1}
           /\ c.has_io_uring \in {0, 1} /\ c.has_sendmmsg \in {0, 1}
           /\ in.uname_ok =>
                /\ c.kernel_version_major = M /\ c.kernel_version_minor = m
                /\ c.has_sendmmsg = 1 <=> M >= 3
                /\ c.has_io_uring = 1 <=> ((M > 5 \/ (M = 5 /\ m >= 1)) /\ in.build.io_uring)
                /\ c.has_af_xdp = 1 <=> ((M > 4 \/ (M = 4 /\ m >= 18)) /\ in.build.af_xdp)
           /\ ~in.uname_ok =>
                /\ c.kernel_version_major = 0 /\ c.kernel_version_minor = 0
                /\ c.has_sendmmsg = 0 /\ c.has_io_uring = 0 /\ c.has_af_xdp = 0

\* the probe ran on kernel 4.17 with every feature compiled in: sendmmsg and
\* dpdk are available, AF_XDP and io_uring are not
C13_Witness ==
    /\ probe_out # <<>>
    /\ probe_in = [build |-> FullBuild, uname_ok |-> TRUE, major |-> 4, minor |-> 17]
    /\ probe_out.caps.has_sendmmsg = 1
    /\ probe_out.caps.has_af_xdp = 0
    /\ probe_out.caps.has_io_uring = 0
    /\ probe_out.caps.has_dpdk = 1

\* ---- select_best_backend ----

\* the availability flags of a record, by backend
FlagOf(c, b) == IF Available(c, b) THEN 1 ELSE 0

\* the priority order, highest first
PriorityOrder ==
    <<BACKEND_DPDK, BACKEND_AF_XDP, BACKEND_IO_URING, BACKEND_SENDMMSG, BACKEND_RAW_SOCKET>>

\* the first backend of the order whose flag is set in c
FirstAvailable(c) ==
    LET i == CHOOSE k \in 1..Len(PriorityOrder) :
                 /\ Available(c, PriorityOrder[k])
                 /\ \A j \in 1..(k - 1) : ~Available(c, PriorityOrder[j])
    IN PriorityOrder[i]

OnlyFlags(S) ==
    [NoCaps EXCEPT !.has_raw_socket = 1,
                   !.has_dpdk = IF BACKEND_DPDK \in S THEN 1 ELSE 0,
                   !.has_af_xdp = IF BACKEND_AF_XDP \in S THEN 1 ELSE 0,
                   !.has_io_uring = IF BACKEND_IO_URING \in S THEN 1 ELSE 0,
                   !.has_sendmmsg = IF BACKEND_SENDMMSG \in S THEN 1 ELSE 0]

\* C11: select_best_backend returns the first backend of the order dpdk,
\* af_xdp, io_uring, sendmmsg, raw_socket whose flag is set: the flag of the
\* returned backend is set, sendmmsg alone yields sendmmsg, and af_xdp with
\* io_uring and sendmmsg (no dpdk) yields af_xdp.
C11_SelectFirstAvailable ==
    sel_out # <<>> =>
        /\ sel_out[1] = FirstAvailable(sel_in[1])
        /\ Available(sel_in[1], sel_out[1])
        /\ sel_in[1] = OnlyFlags({BACKEND_SENDMMSG}) => sel_out[1] = BACKEND_SENDMMSG
        /\ sel_in[1] = OnlyFlags({BACKEND_AF_XDP, BACKEND_IO_URING, BACKEND_SENDMMSG})
              => sel_out[1] = BACKEND_AF_XDP

\* the selector was called on the record of sendmmsg alone and on the record
\* of af_xdp, io_uring and sendmmsg
C11_Witness ==
    /\ sel_out = <<BACKEND_SENDMMSG, BACKEND_AF_XDP>>
    /\ sel_in[1] = OnlyFlags({BACKEND_SENDMMSG})
    /\ sel_in[2] = OnlyFlags({BACKEND_AF_XDP, BACKEND_IO_URING, BACKEND_SENDMMSG})

\* C12: selector monotonicity: when every flag set in the first record is set
\* in the second, the backend selected for the first has a priority no higher
\* than the backend selected for the second.
C12_SelectorMonotone ==
    (sel_out # <<>> /\ \A b \in Backends : FlagOf(sel_in[1], b) <= FlagOf(sel_in[2], b))
        => sel_out[1] <= sel_out[2]

\* a record and a strictly larger one for which a better backend is selected
C12_Witness ==
    /\ sel_out # <<>>
    /\ \A b \in Backends : FlagOf(sel_in[1], b) <= FlagOf(sel_in[2], b)
    /\ sel_in[1] # sel_in[2]
    /\ sel_out[1] = BACKEND_SENDMMSG
    /\ sel_out[2] = BACKEND_DPDK

\* ---- checksums ----

\* the big-endian 16-bit words of a byte sequence, an odd final byte being
\* the high byte of a word whose low byte is zero
RECURSIVE WordsOf(_)
WordsOf(b) ==
    IF Len(b) = 0 THEN <<>>
    ELSE IF Len(b) = 1 THEN <<b[1] * 256>>
    ELSE <<b[1] * 256 + b[2]>> \o WordsOf(SubSeq(b, 3, Len(b)))

\* the one's-complement (end-around-carry) sum of 16-bit words: the
\* representative in 1..65535 of their sum modulo 65535, and 0 for a zero sum
OnesComplementSum(w) ==
    LET t == SumSeq(w) IN IF t = 0 THEN 0 ELSE ((t - 1) % 65535) + 1

\* the statement of C14 for every sequence, as the specification words it:
\* the checksum over a sequence extended by its checksum is 0x0000
C14_RoundTripAnyLength ==
    csum_out.again # NoSum => csum_out.again = 0

\* C14: checksum round trip: for every byte sequence of even length
\* (the empty one included), appending the two bytes of its
\* calculate_checksum in big-endian order and applying calculate_checksum to
\* the extended sequence yields 0x0000.
C14_RoundTripEvenLength ==
    (csum_out.again # NoSum /\ Len(csum_in.data) % 2 = 0) => csum_out.again = 0

\* the header of scenario S1 was extended by its checksum and summed again
C14_Witness ==
    /\ csum_in.data = S1Header
    /\ csum_out.sum = 45542
    /\ csum_out.again = 0

\* C15: calculate_checksum returns the 16-bit complement of the
\* one's-complement sum of the big-endian words of the sequence, an odd final
\* byte counting as a high byte; the empty sequence yields 0xFFFF and the
\* header of scenario S1 yields 0xB1E6.
C15_ChecksumValue ==
    csum_out.sum # NoSum =>
        /\ csum_out.sum = 65535 - OnesComplementSum(WordsOf(csum_in.data))
        /\ csum_in.data = <<>> => csum_out.sum = 65535
        /\ csum_in.data = S1Header => csum_out.sum = 45542

\* a sequence of odd length whose word sum carries out of 16 bits
C15_Witness ==
    /\ csum_in.data = <<255, 255, 128>>
    /\ csum_out.sum = 32767

\* the statement of C16 as the specification words it: scenario S2 yields
\* 0x8D79
C16_ScenarioS2 ==
    (csum_out.transport # NoSum /\ csum_in.data = S2Segment /\ csum_in.protocol = 17)
        => csum_out.transport = 36217

\* C16: scenario S2: for src 192.168.1.1, dst 192.168.1.2 (passed as the
\* numbers 0xC0A80101 and 0xC0A80102), protocol 17 and the 13-byte UDP
\* segment, calculate_transport_checksum returns 0x3DAE.
C16_ScenarioS2Value ==
    (csum_out.transport # NoSum /\ csum_in.data = S2Segment /\ csum_in.protocol = 17
       /\ csum_in.addrs = S2Addrs)
        => csum_out.transport = 15790

\* scenario S2 was computed
C16_Witness ==
    /\ csum_in.data = S2Segment
    /\ csum_in.protocol = 17
    /\ csum_in.addrs = S2Addrs
    /\ csum_out.transport = 15790

\* ---- AF_XDP: addresses, resources, refill, progress ----

\* C17: every tx descriptor address written by af_xdp_send or
\* af_xdp_send_batch is a frame offset inside the memory area: a multiple of
\* FRAME_SIZE strictly below NUM_FRAMES * FRAME_SIZE.
C17_TxAddrInArea ==
    \A i \in 1..Len(tx_ring.q) :
        /\ tx_ring.q[i].addr % FRAME_SIZE = 0
        /\ tx_ring.q[i].addr < NUM_FRAMES * FRAME_SIZE

\* C18: across init_af_xdp and cleanup_af_xdp calls each acquired resource is
\* released exactly once.  Stated for a backend on which no init succeeded
\* since the last cleanup (every init_af_xdp failed and released what it had
\* acquired): cleanup_af_xdp then releases nothing through a pointer to an
\* object that was released already, and leaves nothing unreleased.
C18_ReleasedExactlyOnce ==
    [][(call' = "cleanup_af_xdp" /\ xdp_live = [area |-> 0, umem |-> 0, xsk |-> 0])
         => /\ "freed" \notin {xsk, umem, umem_area}
            /\ released' = {}
            /\ xdp_live' = [area |-> 0, umem |-> 0, xsk |-> 0]]_vars

\* C19: af_xdp_recv posts to the fill ring the address the rx descriptor had
\* when it was peeked, whatever the kernel produces into the rx ring during
\* the call, and it returns min(desc.len, max_len).
C19_RefillSameFrame ==
    /\ [][(recv_pc = "refill" /\ recv_pc' = "idle") => fq' = Append(fq, recv_peeked.addr)]_vars
    /\ [](recv_pc = "refill" =>
            ret = Min(recv_peeked.len, recv_peeked.max_len))

\* af_xdp_recv has released a descriptor it truncated, the kernel has
\* descriptors in the rx ring, and the refill is still to come
C19_Witness ==
    /\ recv_pc = "refill"
    /\ recv_peeked.len = 2
    /\ recv_peeked.max_len = 1
    /\ ret = 1
    /\ Len(rx_ring) = NUM_FRAMES - 1
    /\ fq = <<>>

\* C20: TX progress on the XDP path: under a fair kernel and a caller that
\* keeps sending, a frame address posted on the completion ring is eventually
\* taken off it, so that the completion ring does not stay occupied forever.
C20_TxProgress ==
    (xsk = "live" /\ cq # <<>>) ~> (cq = <<>>)

\* C21: mbuf conservation in dpdk_send_burst: on every return path (the
\* allocation fails at some index, the append fails at some index, or the TX
\* burst accepts sent <= count) every mbuf the call allocated has either been
\* accepted by the TX burst (its index is below sent) and not freed, or has
\* been freed exactly once by the call; an mbuf the call did not allocate is
\* neither freed nor handed over; and no mbuf of the pool is lost: those free
\* in the pool and those held by the port add up to the pool's size.
C21_MbufConservation ==
    /\ call = "dpdk_send_burst" =>
         /\ Len(mbuf_allocs) = Len(mbuf_frees)
         /\ handed = (IF ret > 0 THEN 0..(ret - 1) ELSE {})
         /\ \A i \in 1..Len(mbuf_allocs) :
              IF mbuf_allocs[i] = 1
              THEN IF (i - 1) \in handed THEN mbuf_frees[i] = 0 ELSE mbuf_frees[i] = 1
              ELSE mbuf_frees[i] = 0 /\ (i - 1) \notin handed
    /\ dpdk_initialized = 1 => pool_free + nic_mbufs = PoolSize

\* a burst of two of which the port accepted the first: the second is freed
C21_Witness ==
    /\ call = "dpdk_send_burst"
    /\ ret = 1
    /\ mbuf_allocs = <<1, 1>>
    /\ mbuf_frees = <<0, 1>>
    /\ handed = {0}

\* C22: for every source, destination, protocol and payload (whose length
\* fits in 16 bits) calculate_transport_checksum(src, dst, protocol, data)
\* equals calculate_checksum applied to the 12-byte pseudo-header (source high
\* half, source low half, destination high half, destination low half,
\* protocol as a 16-bit word with a zero high byte, length as a 16-bit word)
\* followed by data.
C22_TransportIsChecksumOfPseudoHeader ==
    (csum_out.transport # NoSum /\ csum_out.pseudo # NoSum)
        => csum_out.transport = csum_out.pseudo

\* an odd-length payload under all-ones addresses: both values were computed,
\* with carries out of 16 bits in the pseudo-header and in the data
C22_Witness ==
    /\ csum_in.data = <<255, 255, 128>>
    /\ csum_in.addrs = AllOnesAddrs
    /\ csum_in.protocol = 17
    /\ csum_out.transport = 32747
    /\ csum_out.pseudo = 32747

\* C23: raw_socket_send_ip rejects short buffers without sending: for every
\* buffer with len < 20 it returns -1 and issues no datagram send; for every
\* buffer with len >= 20 it issues exactly one send, on the given socket, of
\* the whole buffer, whose destination address is bytes 16..19 of the buffer,
\* and returns that send's result.
C23_SendIpShortRejected ==
    send_out.done =>
        IF Len(send_in.data) < 20
        THEN send_out.ret = -1 /\ send_out.calls = <<>>
        ELSE /\ Len(send_out.calls) = 1
             /\ send_out.calls[1].sockfd = send_in.sockfd
             /\ send_out.calls[1].data = send_in.data
             /\ send_out.calls[1].len = Len(send_in.data)
             /\ \A k \in 1..4 : send_out.calls[1].s_addr[k] = send_in.data[16 + k]
             /\ send_out.ret = send_in.result

\* a 19-byte buffer was rejected
C23_Witness ==
    /\ send_out.done
    /\ Len(send_in.data) = 19
    /\ send_out.ret = -1
    /\ send_out.calls = <<>>
====
